---- MODULE Spec2Model ----
(***************************************************************************)
(* Airletters: the letter store (lib/storage.js in its two revisions, the  *)
(* sync manager and the screens that drive them) and the flight progress   *)
(* calculator (lib/simulation.js).                                         *)
(*                                                                         *)
(* Time is in milliseconds since the epoch, as Date.getTime() gives it.    *)
(* An ISO string written by toISOString() and read back by new Date() is   *)
(* the same millisecond, so a stored timestamp is the integer itself; the  *)
(* three values that are not a time are Null, Malformed and NaN below.     *)
(* A progress value is an exact fraction <<n, d>> in lowest terms.         *)
(***************************************************************************)
EXTENDS Integers, Sequences, FiniteSets, TLC

\* ------------------------------------------------------------------ bounds

\* Most saveLetter calls of one run of the app.
MaxSaves == 1

\* Largest timestamp (in TimeUnit steps) of the progress calculator's inputs.
MaxStamp == 5

\* Most points of a route given to the route interpolators.
MaxRoute == 3

\* Most letters in the Map of LetterTrackingSystem.
MaxTracked == 1

\* Most letters of a list given to mergeLetterData.
MaxMerge == 2

\* Most updateMovieStatus calls of the movie screen's timer in flight at once.
MaxChecks == 2

\* Most notifications the operating system is asked to schedule in one run.
MaxNotifications == 4

\* Most listeners registered with FlightSimulation or LetterTrackingSystem.
MaxListeners == 2

\* Most flights given to FlightSimulation.
MaxFlights == 1

\* ------------------------------------------------------- values and clock

SCHEDULED == "scheduled"
IN_TRANSIT == "in_transit"
DELIVERED == "delivered"
READ == "read"

LETTER_STATUS == {SCHEDULED, IN_TRANSIT, DELIVERED, READ}

\* JSON null (deliveredAt, readAt of a letter not yet delivered / read).
Null == -1
\* A scheduledSendUTC that is absent or is no date string.
Malformed == -2
\* The time value of an Invalid Date.
NaN == -3

\* First instant of the clock; late enough that the mocked remote letter's
\* timestamps (now - 10 min) are not negative.
T0 == 10 * 60000

\* The instants at which the app reads the clock.
Instants == {T0 + d : d \in {0, 15000, 30000, 300000}}

\* The instants of the 300-second delivery scenario.
ScenarioInstants == {T0 + d : d \in {0, 150000, 300000, 400000}}

\* The instants of the retention scenario: the last one is days later.
RetentionInstants == {T0, T0 + 30000, T0 + 4 * 24 * 60 * 60 * 1000}

\* sendDelayMinutes values the compose screens pass (0: send immediately).
Delays == {0, 1}

Users == {"A", "B"}

\* The two revisions of lib/storage.js in the repository.
REV_CURRENT == "storage.js (user direction, 30 s transit)"
REV_TESTFLIGHTS == "storage.js (scheduled first, 5 min transit)"
Revisions == {REV_CURRENT, REV_TESTFLIGHTS}

\* --------------------------------------------------------------- fractions

RECURSIVE GCD(_, _)
GCD(a, b) == IF b = 0 THEN a ELSE GCD(b, a % b)

Abs(x) == IF x < 0 THEN -x ELSE x

\* n / d as a fraction in lowest terms, d > 0.
Frac(n, d) == LET g == GCD(Abs(n), d) IN <<n \div g, d \div g>>

\* The number NaN as a progress value (JSON.stringify stores it as null).
NaNFrac == <<0, 0>>

Zero == <<0, 1>>
One == <<1, 1>>

IsNaNFrac(p) == p[2] = 0

\* p <= q, p < q on fractions; every comparison with NaN is false.
FracLE(p, q) == ~IsNaNFrac(p) /\ ~IsNaNFrac(q) /\ p[1] * q[2] <= q[1] * p[2]
FracLT(p, q) == ~IsNaNFrac(p) /\ ~IsNaNFrac(q) /\ p[1] * q[2] < q[1] * p[2]

\* Math.min(p, q), Math.max(p, q): NaN when either is NaN.
FracMin(p, q) ==
    IF IsNaNFrac(p) \/ IsNaNFrac(q) THEN NaNFrac ELSE IF FracLE(p, q) THEN p ELSE q
FracMax(p, q) ==
    IF IsNaNFrac(p) \/ IsNaNFrac(q) THEN NaNFrac ELSE IF FracLE(p, q) THEN q ELSE p

\* p + q, p - q, p * q and Math.floor(p) on fractions that are numbers.
FracAdd(p, q) == Frac(p[1] * q[2] + q[1] * p[2], p[2] * q[2])
FracSub(p, q) == Frac(p[1] * q[2] - q[1] * p[2], p[2] * q[2])
FracMul(p, q) == Frac(p[1] * q[1], p[2] * q[2])
FracFloor(p) == p[1] \div p[2]

\* ------------------------------------------------------------------- dates

\* new Date(x).getTime() of a stored timestamp.
DateParse(x) ==
    IF x = Malformed THEN NaN
    ELSE IF x = Null THEN 0
    ELSE x

\* a - b on time values.
TimeSub(a, b) == IF a = NaN \/ b = NaN THEN NaN ELSE a - b

\* a >= b, a < b on dates; false when either is an Invalid Date.
TimeGE(a, b) == a # NaN /\ b # NaN /\ a >= b
TimeLT(a, b) == a # NaN /\ b # NaN /\ a < b

\* elapsed / duration, elapsed possibly NaN.
Ratio(elapsed, duration) ==
    IF elapsed = NaN THEN NaNFrac ELSE Frac(elapsed, duration)

\* ------------------------------------------------------------------- state

VARIABLES
    now,        \* the wall clock, new Date().getTime()
    rev,        \* the revision of lib/storage.js the app runs
    letters,    \* the list stored under @airletters_letters
    shown,      \* id and status of the letters the letters / map screen shows (setLetters)
    failed,     \* the last operation threw or reported success: false
    saves,      \* number of saveLetter calls so far
    op,         \* the operation that ran last
    flights,    \* the flightA / flightB props of the map screen
    fp,         \* the progress calculator's caller: inputs, result, the result before
    sim,        \* the flightData FlightSimulation holds for one flight
    interp,     \* one use of a route interpolator: route, progress, result
    tracker,    \* this.letters of LetterTrackingSystem: letter id -> letter
    pass,       \* the processLetterStatuses calls in flight, by caller
    mark,       \* the markLetterAsRead call in flight
    merge,      \* one caller of mergeLetterData: its lists and the lists returned
    movie,      \* lib/movieService.js: the storage keys, the scheduler, the calls in flight
    run         \* FlightSimulation's interval and listeners, and what the listeners saw

\* State of the stand-alone engines, which no screen of the app drives.
engineVars == <<sim, interp, tracker>>

\* State of the asynchronous storage calls between their awaits.
taskVars == <<pass, mark>>

\* State of the services that are checked on their own; <<>> where unused.
serviceVars == <<merge, movie, run>>

vars ==
    <<now, rev, letters, shown, failed, saves, op, flights, fp, engineVars, taskVars,
      serviceVars>>

\* ------------------------------------------------------------ lib/storage.js

\* Ids already in use: Math.random() ids are taken to be fresh.
UsedIds == {letters[i].id : i \in DOMAIN letters} \cup {shown[i].id : i \in DOMAIN shown}

\* The k-th smallest positive id not in use.
RECURSIVE FreshFrom(_, _)
FreshFrom(n, k) ==
    IF n \in UsedIds THEN FreshFrom(n + 1, k)
    ELSE IF k = 1 THEN n
    ELSE FreshFrom(n + 1, k - 1)

FreshId(k) == FreshFrom(1, k)

NewLetter(id, status, from, to, delay) ==
    [ id |-> id,
      createdAt |-> now,
      scheduledSendUTC |-> now + delay * 60000,
      deliveredAt |-> Null,
      readAt |-> Null,
      status |-> status,
      fromFlight |-> from,
      toFlight |-> to,
      animationProgress |-> Zero ]

OtherUser(u) == IF u = "A" THEN "B" ELSE "A"

\* saveLetter of the current revision: both letters, in transit at once,
\* replace the stored list.
SaveLetterCurrent(currentUser, delay) ==
    <<NewLetter(FreshId(1), IN_TRANSIT, currentUser, OtherUser(currentUser), delay),
      NewLetter(FreshId(2), IN_TRANSIT, OtherUser(currentUser), currentUser, delay)>>

\* saveLetter of the earlier revision: one scheduled letter is appended.
SaveLetterTestFlights(existing, delay) ==
    Append(existing, NewLetter(FreshId(1), SCHEDULED, "A", "B", delay))

\* transitDuration of processLetterStatuses in each revision.
TransitDuration(r) == IF r = REV_CURRENT THEN 30 * 1000 ELSE 5 * 60 * 1000

\* Variant of TransitProgress: Math.max written for Math.min.
TransitProgressMax(elapsed, transitDuration) ==
    FracMax(Ratio(elapsed, transitDuration), One)

\* Math.min(elapsed / transitDuration, 1)
TransitProgress(elapsed, transitDuration) ==
    FracMin(Ratio(elapsed, transitDuration), One)

\* The first if of the loop body: a scheduled letter starts its transit.
StartTransit(letter, t) ==
    IF letter.status = SCHEDULED /\ TimeGE(t, DateParse(letter.scheduledSendUTC))
    THEN [letter EXCEPT !.status = IN_TRANSIT, !.animationProgress = Zero]
    ELSE letter

\* Variant of AdvanceTransit: progress > 1 written for progress >= 1.
AdvanceTransitStrict(letter, t, transitDuration) ==
    IF letter.status = IN_TRANSIT
    THEN LET elapsed == TimeSub(t, DateParse(letter.scheduledSendUTC))
             progress == TransitProgress(elapsed, transitDuration)
         IN  IF FracLT(One, progress)
             THEN [letter EXCEPT !.status = DELIVERED,
                                 !.deliveredAt = t,
                                 !.animationProgress = One]
             ELSE [letter EXCEPT !.animationProgress = progress]
    ELSE letter

\* Variant of AdvanceTransit: the status test lets every letter that is not
\* scheduled through.
AdvanceTransitAnyStatus(letter, t, transitDuration) ==
    IF letter.status # SCHEDULED
    THEN LET elapsed == TimeSub(t, DateParse(letter.scheduledSendUTC))
             progress == TransitProgress(elapsed, transitDuration)
         IN  IF FracLE(One, progress)
             THEN [letter EXCEPT !.status = DELIVERED,
                                 !.deliveredAt = t,
                                 !.animationProgress = One]
             ELSE [letter EXCEPT !.animationProgress = progress]
    ELSE letter

\* The second if of the loop body: an in-transit letter advances or is delivered.
AdvanceTransit(letter, t, transitDuration) ==
    IF letter.status = IN_TRANSIT
    THEN LET elapsed == TimeSub(t, DateParse(letter.scheduledSendUTC))
             progress == TransitProgress(elapsed, transitDuration)
         IN  IF FracLE(One, progress)
             THEN [letter EXCEPT !.status = DELIVERED,
                                 !.deliveredAt = t,
                                 !.animationProgress = One]
             ELSE [letter EXCEPT !.animationProgress = progress]
    ELSE letter

\* Variant of ProcessLetter: the second if written as else if, so a letter
\* that starts its transit is not advanced in the same pass.
ProcessLetterElseIf(letter, t, r) ==
    IF letter.status = SCHEDULED /\ TimeGE(t, DateParse(letter.scheduledSendUTC))
    THEN StartTransit(letter, t)
    ELSE AdvanceTransit(letter, t, TransitDuration(r))

\* One iteration of the loop of processLetterStatuses.
ProcessLetter(letter, t, r) ==
    AdvanceTransit(StartTransit(letter, t), t, TransitDuration(r))

\* The list processLetterStatuses returns (and stores when anything changed).
ProcessList(list, t, r) ==
    [i \in DOMAIN list |-> ProcessLetter(list[i], t, r)]

\* letters.findIndex(l => l.id === letterId), 0 when there is none.
FindIndex(list, id) ==
    IF \E i \in DOMAIN list : list[i].id = id
    THEN CHOOSE i \in DOMAIN list :
            list[i].id = id /\ \A j \in DOMAIN list : list[j].id = id => i <= j
    ELSE 0

\* updateLetter(letterId, {status: READ, readAt: now}) on the stored list.
MarkLetterAsRead(list, id, t) ==
    LET index == FindIndex(list, id)
    IN  IF index > 0
        THEN [list EXCEPT ![index] = [@ EXCEPT !.status = READ, !.readAt = t]]
        ELSE list

\* hasUpdates at the end of the loop of processLetterStatuses: some letter
\* started its transit or was in transit.
HasUpdates(list, t) ==
    \E i \in DOMAIN list : StartTransit(list[i], t).status = IN_TRANSIT

\* olderThanDays as the map screen passes it on mount.
OlderThanDays == 3

\* The filter of clearOldLetters: a delivered or read letter is kept when its
\* deliveredAt (createdAt when that is null) is not before the cutoff date,
\* taken as whole days of 24 hours before t.
KeptByClearOld(letter, t, olderThanDays) ==
    LET cutoffDate == t - olderThanDays * 24 * 60 * 60 * 1000
        letterDate == DateParse(IF letter.deliveredAt # Null THEN letter.deliveredAt
                                ELSE letter.createdAt)
    IN  letter.status \in {READ, DELIVERED} => TimeGE(letterDate, cutoffDate)

\* ------------------------------------------------------- lib/simulation.js

\* DateTime.fromISO(x).toMillis(): NaN for a string that is no ISO date.
ToMillis(x) == IF x = Malformed THEN NaN ELSE x

\* Math.min / Math.max on numbers that may be NaN.
NumMin(a, b) == IF a = NaN \/ b = NaN THEN NaN ELSE IF a <= b THEN a ELSE b
NumMax(a, b) == IF a = NaN \/ b = NaN THEN NaN ELSE IF a >= b THEN a ELSE b

\* Variant of flightProgressPercent: elapsed is not held at 0 from below.
flightProgressPercentNoFloor(departureISO, arrivalISO, nowISO) ==
    LET dep == ToMillis(departureISO)
        arr == ToMillis(arrivalISO)
        nw == ToMillis(nowISO)
        dur == TimeSub(arr, dep)
        elapsed == NumMin(TimeSub(nw, dep), dur)
    IN  IF dur # NaN /\ dur <= 0 THEN Zero
        ELSE IF dur = NaN \/ elapsed = NaN THEN NaNFrac
        ELSE Frac(elapsed, dur)

\* Variant of flightProgressPercent: elapsed is not held at dur from above.
flightProgressPercentNoCeiling(departureISO, arrivalISO, nowISO) ==
    LET dep == ToMillis(departureISO)
        arr == ToMillis(arrivalISO)
        nw == ToMillis(nowISO)
        dur == TimeSub(arr, dep)
        elapsed == NumMax(0, TimeSub(nw, dep))
    IN  IF dur # NaN /\ dur <= 0 THEN Zero
        ELSE IF dur = NaN \/ elapsed = NaN THEN NaNFrac
        ELSE Frac(elapsed, dur)

\* Variant of flightProgressPercent: the time left, arr - nw, written for the
\* time elapsed, nw - dep.
flightProgressPercentRemaining(departureISO, arrivalISO, nowISO) ==
    LET dep == ToMillis(departureISO)
        arr == ToMillis(arrivalISO)
        nw == ToMillis(nowISO)
        dur == TimeSub(arr, dep)
        elapsed == NumMax(0, NumMin(TimeSub(arr, nw), dur))
    IN  IF dur # NaN /\ dur <= 0 THEN Zero
        ELSE IF dur = NaN \/ elapsed = NaN THEN NaNFrac
        ELSE Frac(elapsed, dur)

\* flightProgressPercent(departureISO, arrivalISO, nowISO); a call without
\* nowISO passes the clock.
flightProgressPercent(departureISO, arrivalISO, nowISO) ==
    LET dep == ToMillis(departureISO)
        arr == ToMillis(arrivalISO)
        nw == ToMillis(nowISO)
        dur == TimeSub(arr, dep)
        elapsed == NumMax(0, NumMin(TimeSub(nw, dep), dur))
    IN  IF dur # NaN /\ dur <= 0 THEN Zero
        ELSE IF dur = NaN \/ elapsed = NaN THEN NaNFrac
        ELSE Frac(elapsed, dur)

\* --------------------------------------------------- lib/flightSimulation.js

\* n / d for d # 0 of either sign.
SignedFrac(n, d) == IF d > 0 THEN Frac(n, d) ELSE Frac(-n, -d)

\* Math.max(0, Math.min(1, elapsedTime / totalFlightTime)): a division by 0
\* gives Infinity, -Infinity or (0 / 0) NaN, and the clamp turns the first
\* two into 1 and 0 and keeps NaN.
ClampedQuotient(elapsedTime, totalFlightTime) ==
    IF elapsedTime = NaN \/ totalFlightTime = NaN THEN NaNFrac
    ELSE IF totalFlightTime = 0
    THEN IF elapsedTime > 0 THEN One
         ELSE IF elapsedTime < 0 THEN Zero
         ELSE NaNFrac
    ELSE FracMax(Zero, FracMin(One, SignedFrac(elapsedTime, totalFlightTime)))

\* addFlight(flight): the flightData put in the flights Map. Of its fields
\* the model keeps the times, progress, status and lastUpdate; position,
\* altitude, speed and bearing are computed from progress and feed nothing.
addFlight(flight, t) ==
    [ departureUTC |-> flight.departureUTC,
      arrivalUTC |-> flight.arrivalUTC,
      progress |-> Zero,
      status |-> "SCHEDULED",
      lastUpdate |-> t ]

\* updateFlightData(flight, currentTime)
updateFlightData(flight, currentTime) ==
    LET departureTime == DateParse(flight.departureUTC)
        arrivalTime == DateParse(flight.arrivalUTC)
        totalFlightTime == TimeSub(arrivalTime, departureTime)
        elapsedTime == TimeSub(currentTime, departureTime)
        progress == ClampedQuotient(elapsedTime, totalFlightTime)
        inFlight == TimeGE(currentTime, departureTime) /\ TimeGE(arrivalTime, currentTime)
        arrived == TimeLT(arrivalTime, currentTime)
    IN  [flight EXCEPT
            !.progress = IF ~inFlight /\ arrived THEN One ELSE progress,
            !.status = IF inFlight THEN "IN_FLIGHT"
                       ELSE IF arrived THEN "ARRIVED"
                       ELSE "SCHEDULED",
            !.lastUpdate = currentTime]

\* Variant of notifyListeners: the listener is called without try / catch,
\* so the first listener that throws ends the forEach and the exception
\* reaches the caller.
notifyListenersNoCatch(listeners) ==
    [ called |-> {i \in DOMAIN listeners : \A j \in 1..(i - 1) : ~listeners[j]},
      thrown |-> \E i \in DOMAIN listeners : listeners[i] ]

\* notifyListeners(event, data) of FlightSimulation and of
\* LetterTrackingSystem: listeners is the Set in insertion order, TRUE for a
\* listener that throws; called are the listeners that were called, thrown
\* says whether an exception reaches the caller.
notifyListeners(listeners) ==
    [ called |-> DOMAIN listeners, thrown |-> FALSE ]

\* ------------------------------------------------------ route interpolators

\* Math.sin(x * Math.PI) for 0 <= x <= 1, as the rational 16y / (5 - 4y) with
\* y = x(1 - x): exact at 0, 1/6, 1/2, 5/6 and 1, within 0.002 elsewhere, and
\* like the sine 0 only at 0 and 1.
SinPi(x) ==
    LET y == FracMul(x, FracSub(One, x))
    IN  Frac(16 * y[1], 5 * y[2] - 4 * y[1])

\* Variant of RouteIndices: the segment's far end read at segment + 1,
\* without Math.min.
RouteIndicesNoMin(route, progress) ==
    IF FracLE(progress, Zero) THEN {0}
    ELSE IF FracLE(One, progress) THEN {Len(route) - 1}
    ELSE LET totalSegments == Len(route) - 1
             segment == FracFloor(FracMul(progress, <<totalSegments, 1>>))
         IN  {segment, segment + 1}

\* The indices (from 0) of the route that an interpolator reads: route[0],
\* route[route.length - 1], or the two ends of the segment.
RouteIndices(route, progress) ==
    IF FracLE(progress, Zero) THEN {0}
    ELSE IF FracLE(One, progress) THEN {Len(route) - 1}
    ELSE LET totalSegments == Len(route) - 1
             segment == FracFloor(FracMul(progress, <<totalSegments, 1>>))
         IN  {segment, NumMin(segment + 1, Len(route) - 1)}

\* interpolateRoute(route, progress) of the map screen; route[i] of the code
\* is route[i + 1] here.
interpolateRoute(route, progress) ==
    IF FracLE(progress, Zero) THEN route[1]
    ELSE IF FracLE(One, progress) THEN route[Len(route)]
    ELSE LET totalSegments == Len(route) - 1
             scaled == FracMul(progress, <<totalSegments, 1>>)
             segment == FracFloor(scaled)
             segmentProgress == FracSub(scaled, <<segment, 1>>)
             start == route[segment + 1]
             end == route[NumMin(segment + 1, Len(route) - 1) + 1]
         IN  [ latitude |->
                   FracAdd(start.latitude,
                           FracMul(FracSub(end.latitude, start.latitude), segmentProgress)),
               longitude |->
                   FracAdd(start.longitude,
                           FracMul(FracSub(end.longitude, start.longitude), segmentProgress)) ]

\* Variant of interpolatePosition: the first point returned at both ends.
interpolatePositionFirstForLast(route, progress) ==
    IF Len(route) = 0 THEN Null
    ELSE IF FracLE(progress, Zero) THEN route[1]
    ELSE IF FracLE(One, progress) THEN route[1]
    ELSE LET totalSegments == Len(route) - 1
             scaled == FracMul(progress, <<totalSegments, 1>>)
             segmentIndex == FracFloor(scaled)
             segmentProgress == FracSub(scaled, <<segmentIndex, 1>>)
             startPoint == route[segmentIndex + 1]
             endPoint == route[NumMin(segmentIndex + 1, Len(route) - 1) + 1]
             lat == FracAdd(startPoint.latitude,
                            FracMul(FracSub(endPoint.latitude, startPoint.latitude),
                                    segmentProgress))
             lon == FracAdd(startPoint.longitude,
                            FracMul(FracSub(endPoint.longitude, startPoint.longitude),
                                    segmentProgress))
             curvature == FracMul(SinPi(segmentProgress), <<1, 100>>)
         IN  [latitude |-> FracAdd(lat, curvature), longitude |-> lon]

\* interpolatePosition(route, progress) of FlightSimulation.
interpolatePosition(route, progress) ==
    IF Len(route) = 0 THEN Null
    ELSE IF FracLE(progress, Zero) THEN route[1]
    ELSE IF FracLE(One, progress) THEN route[Len(route)]
    ELSE LET totalSegments == Len(route) - 1
             scaled == FracMul(progress, <<totalSegments, 1>>)
             segmentIndex == FracFloor(scaled)
             segmentProgress == FracSub(scaled, <<segmentIndex, 1>>)
             startPoint == route[segmentIndex + 1]
             endPoint == route[NumMin(segmentIndex + 1, Len(route) - 1) + 1]
             lat == FracAdd(startPoint.latitude,
                            FracMul(FracSub(endPoint.latitude, startPoint.latitude),
                                    segmentProgress))
             lon == FracAdd(startPoint.longitude,
                            FracMul(FracSub(endPoint.longitude, startPoint.longitude),
                                    segmentProgress))
             curvature == FracMul(SinPi(segmentProgress), <<1, 100>>)
         IN  [latitude |-> FracAdd(lat, curvature), longitude |-> lon]

\* ------------------------------------------------------ lib/letterTracking.js

\* LETTER_STATUS of letterTracking.js.
TRACKING_STATUS == {"DRAFT", "SCHEDULED", "IN_TRANSIT", "DELIVERED", "READ", "FAILED"}

\* The outcome of a method on a letter object: the letter as the method left
\* it, and whether the method threw. addTrackingEntry throws a TypeError at
\* trackingHistory.push when the letter has no trackingHistory array; the
\* assignments made before the call stay.
Outcome(letter) == [letter |-> letter, thrown |-> ~letter.trackingHistory]

\* createLetter(letterData): the letter put in the Map. Of its fields the
\* model keeps those the status logic reads or writes, trackingHistory as
\* present / absent, and errorCount with undefined as 0.
createLetter(id, scheduledAt) ==
    [ id |-> id,
      status |-> "DRAFT",
      scheduledAt |-> scheduledAt,
      deliveredAt |-> Null,
      readAt |-> Null,
      progress |-> Zero,
      trackingHistory |-> TRUE,
      errorCount |-> 0 ]

scheduleLetter(letter, scheduledTime) ==
    Outcome([letter EXCEPT !.status = "SCHEDULED", !.scheduledAt = scheduledTime])

startTransit(letter) ==
    Outcome([letter EXCEPT !.status = "IN_TRANSIT", !.progress = Zero])

deliverLetter(letter, t) ==
    Outcome([letter EXCEPT !.status = "DELIVERED", !.deliveredAt = t, !.progress = One])

markLetterAsRead(letter, t) ==
    Outcome([letter EXCEPT !.status = "READ", !.readAt = t])

\* shouldAddTrackingEntry(oldProgress, newProgress)
shouldAddTrackingEntry(oldProgress, newProgress) ==
    \E milestone \in {<<1, 4>>, <<1, 2>>, <<3, 4>>, One} :
        FracLT(oldProgress, milestone) /\ FracLE(milestone, newProgress)

updateLetterProgress(letter, progress, t) ==
    IF letter.status # "IN_TRANSIT" THEN [letter |-> letter, thrown |-> FALSE]
    ELSE LET updated == [letter EXCEPT !.progress = FracMax(Zero, FracMin(One, progress))]
             entry == IF shouldAddTrackingEntry(letter.progress, updated.progress)
                      THEN Outcome(updated)
                      ELSE [letter |-> updated, thrown |-> FALSE]
         IN  IF entry.thrown THEN entry
             ELSE IF FracLE(One, updated.progress) THEN deliverLetter(updated, t)
             ELSE entry

\* The try block of the loop of processLetterStatuses, for one letter;
\* flightProgress is what getFlightProgress returned.
TryProcess(letter, t, flightProgress) ==
    LET started ==
            IF letter.status = "SCHEDULED" /\ TimeGE(t, DateParse(letter.scheduledAt))
            THEN startTransit(letter)
            ELSE [letter |-> letter, thrown |-> FALSE]
    IN  IF started.thrown THEN started
        ELSE updateLetterProgress(started.letter, flightProgress, t)

\* One iteration of the loop of processLetterStatuses with its catch block:
\* thrown says that the catch block itself threw, which ends the pass.
ProcessTracked(letter, t, flightProgress) ==
    LET tried == TryProcess(letter, t, flightProgress)
    IN  IF ~tried.thrown THEN tried
        ELSE IF tried.letter.errorCount > 3
        THEN Outcome([tried.letter EXCEPT !.status = "FAILED"])
        ELSE [letter |-> [tried.letter EXCEPT !.errorCount = @ + 1], thrown |-> FALSE]

\* The loop of processLetterStatuses from letter id on, in the Map's order.
RECURSIVE ProcessTrackedFrom(_, _, _, _)
ProcessTrackedFrom(map, id, t, flightProgress) ==
    IF id \notin DOMAIN map THEN map
    ELSE LET one == ProcessTracked(map[id], t, flightProgress[id])
             next == [map EXCEPT ![id] = one.letter]
         IN  IF one.thrown THEN next
             ELSE ProcessTrackedFrom(next, id + 1, t, flightProgress)

\* ------------------------------------------------------- lib/movieService.js

\* calculateMovieStartTime(flightDepartureUTC) at clock t: 45 minutes after
\* the departure, or 5 minutes from now when the departure is no ISO date.
calculateMovieStartTime(flightDepartureUTC, t) ==
    IF flightDepartureUTC = Null \/ ToMillis(flightDepartureUTC) = NaN
    THEN t + 5 * 60000
    ELSE ToMillis(flightDepartureUTC) + 45 * 60000

\* Variant of getCurrentMoviePosition: the ended test written with > for >=.
getCurrentMoviePositionStrict(movieStartTime, movieDurationMinutes, t) ==
    LET elapsedMinutes == Frac(t - movieStartTime, 60000)
    IN  IF FracLT(elapsedMinutes, Zero)
        THEN [ status |-> "waiting", position |-> Zero ]
        ELSE IF FracLT(<<movieDurationMinutes, 1>>, elapsedMinutes)
        THEN [ status |-> "ended", position |-> <<movieDurationMinutes * 60 * 1000, 1>> ]
        ELSE [ status |-> "playing",
               position |-> FracMul(elapsedMinutes, <<60 * 1000, 1>>) ]

\* getCurrentMoviePosition(movieStartTime, movieDurationMinutes) at clock t;
\* of the object returned the model keeps status and position (milliseconds).
getCurrentMoviePosition(movieStartTime, movieDurationMinutes, t) ==
    LET elapsedMinutes == Frac(t - movieStartTime, 60000)
    IN  IF FracLT(elapsedMinutes, Zero)
        THEN [ status |-> "waiting", position |-> Zero ]
        ELSE IF FracLE(<<movieDurationMinutes, 1>>, elapsedMinutes)
        THEN [ status |-> "ended", position |-> <<movieDurationMinutes * 60 * 1000, 1>> ]
        ELSE [ status |-> "playing",
               position |-> FracMul(elapsedMinutes, <<60 * 1000, 1>>) ]

\* flightStart.plus({ minutes: 1 }) of the flight the stored flight data holds
\* for the current user: Null when there is no such flight or departure, NaN
\* when the departure is no ISO date.
LetterWindowEnd(flightData, currentUser) ==
    LET userFlight == IF currentUser = "B" THEN flightData.flightB ELSE flightData.flightA
    IN  IF userFlight = Null THEN Null
        ELSE IF ToMillis(userFlight) = NaN THEN NaN
        ELSE ToMillis(userFlight) + 60000

\* canPlayMovie() at clock t: true without flight data, when JSON.parse throws
\* and without a departure; otherwise now > letterWindowEnd.
canPlayMovie(flightData, currentUser, t) ==
    IF flightData.json # "object" THEN TRUE
    ELSE LET letterWindowEnd == LetterWindowEnd(flightData, currentUser)
         IN  IF letterWindowEnd = Null THEN TRUE
             ELSE TimeLT(letterWindowEnd, t)

\* getTimeUntilMovieAvailable() at clock t, in milliseconds (NaN for a
\* departure that is no ISO date).
getTimeUntilMovieAvailable(flightData, currentUser, t) ==
    IF flightData.json # "object" THEN 0
    ELSE LET letterWindowEnd == LetterWindowEnd(flightData, currentUser)
         IN  IF letterWindowEnd = Null THEN 0
             ELSE IF TimeLT(letterWindowEnd, t) THEN 0
             ELSE TimeSub(letterWindowEnd, t)

\* The reminder checkMovieStartReminder decides on at clock t from what it
\* read of @movie_start_time (with @movie_title) and @movie_last_reminder:
\* "none" for null.
checkMovieStartReminder(movieStartTimeStr, lastReminderStr, t) ==
    IF movieStartTimeStr = Null THEN "none"
    ELSE LET timeDiff == Frac(movieStartTimeStr - t, 60000)
             timeSinceLastReminder ==
                 IF lastReminderStr # Null THEN Frac(t - lastReminderStr, 60000)
                 ELSE <<10, 1>>
         IN  IF FracLT(timeSinceLastReminder, <<3, 1>>) THEN "none"
             ELSE IF FracLE(timeDiff, Zero) /\ FracLE(<<-5, 1>>, timeDiff) THEN "started"
             ELSE IF FracLT(Zero, timeDiff) /\ FracLE(timeDiff, <<2, 1>>) THEN "preparation"
             ELSE "none"

\* cancelMovieNotification on the state of the service: the stored ids are
\* cancelled and removed, then the manual reminder's keys are removed.
cancelMovieNotification(m) ==
    [m EXCEPT !.scheduled = @ \ {m.notificationId, m.prepNotificationId},
              !.notificationId = Null,
              !.prepNotificationId = Null,
              !.startTime = Null,
              !.lastReminder = Null]

\* -------------------------------------------------------- lib/syncManager.js

\* id of the one letter the mocked server returns.
RemoteId == 0

\* transitDuration of estimateLetterProgress.
EstimateDuration == 5 * 60 * 1000

\* new Date(ms).toISOString() throws a RangeError on an Invalid Date.
ToISOStringThrows(ms) == ms = NaN

\* estimateLetterProgress throws: the delivered branch builds deliveredAt
\* from an Invalid Date.
EstimateThrows(letter, currentTime) ==
    LET scheduledTime == DateParse(letter.scheduledSendUTC)
        elapsed == TimeSub(currentTime, scheduledTime)
    IN  /\ ~TimeLT(currentTime, scheduledTime)
        /\ ~(elapsed # NaN /\ elapsed < EstimateDuration)
        /\ letter.deliveredAt = Null
        /\ ToISOStringThrows(IF scheduledTime = NaN THEN NaN
                             ELSE scheduledTime + EstimateDuration)

\* estimateLetterProgress(letter, currentTime), when it does not throw.
estimateLetterProgress(letter, currentTime) ==
    LET scheduledTime == DateParse(letter.scheduledSendUTC)
        elapsed == TimeSub(currentTime, scheduledTime)
    IN  IF TimeLT(currentTime, scheduledTime)
        THEN [letter EXCEPT !.status = SCHEDULED, !.animationProgress = Zero]
        ELSE IF elapsed # NaN /\ elapsed < EstimateDuration
        THEN [letter EXCEPT !.status = IN_TRANSIT,
                            !.animationProgress = Frac(elapsed, EstimateDuration)]
        ELSE [letter EXCEPT !.status = DELIVERED,
                            !.animationProgress = One,
                            !.deliveredAt =
                                IF letter.deliveredAt # Null THEN letter.deliveredAt
                                ELSE scheduledTime + EstimateDuration]

statusPriority(status) ==
    CASE status = SCHEDULED -> 0
      [] status = IN_TRANSIT -> 1
      [] status = DELIVERED -> 2
      [] status = READ -> 3

\* { ...local, ...remoteLetter }
Spread(local, remoteLetter) ==
    [k \in DOMAIN local \cup DOMAIN remoteLetter |->
        IF k \in DOMAIN remoteLetter THEN remoteLetter[k] ELSE local[k]]

\* Variant of MergeOne: the less advanced status wins.
MergeOneLower(merged, localIds, remoteLetter) ==
    IF remoteLetter.id \notin localIds
    THEN Append(merged, remoteLetter)
    ELSE LET localIndex == FindIndex(merged, remoteLetter.id)
             local == merged[localIndex]
         IN  IF statusPriority(remoteLetter.status) < statusPriority(local.status)
             THEN [merged EXCEPT ![localIndex] = Spread(local, remoteLetter)]
             ELSE merged

\* Variant of MergeOne: every remote letter is pushed, known locally or not.
MergeOnePush(merged, localIds, remoteLetter) ==
    Append(merged, remoteLetter)

\* One iteration of the loop of mergeLetterData.
MergeOne(merged, localIds, remoteLetter) ==
    IF remoteLetter.id \notin localIds
    THEN Append(merged, remoteLetter)
    ELSE LET localIndex == FindIndex(merged, remoteLetter.id)
             local == merged[localIndex]
         IN  IF statusPriority(remoteLetter.status) > statusPriority(local.status)
             THEN [merged EXCEPT ![localIndex] = Spread(local, remoteLetter)]
             ELSE merged

RECURSIVE MergeFrom(_, _, _, _)
MergeFrom(merged, localIds, remoteLetters, k) ==
    IF k > Len(remoteLetters) THEN merged
    ELSE MergeFrom(MergeOne(merged, localIds, remoteLetters[k]),
                   localIds, remoteLetters, k + 1)

mergeLetterData(localLetters, remoteLetters) ==
    MergeFrom(localLetters,
              {localLetters[i].id : i \in DOMAIN localLetters},
              remoteLetters, 1)

\* mockRemoteLetters of fetchRemoteLetters, built at time t.
MockRemoteLetters(t) ==
    << [ id |-> RemoteId,
         createdAt |-> t - 10 * 60000,
         scheduledSendUTC |-> t - 5 * 60000,
         deliveredAt |-> t - 1000,
         readAt |-> Null,
         status |-> DELIVERED,
         fromFlight |-> "B",
         toFlight |-> "A",
         animationProgress |-> One ] >>

\* ---------------------------------------------------- screens/MapScreen.js

\* The letters.map callback of the flight-driven updateData.
MapUpdateLetter(letter, newProgressA, newProgressB, t) ==
    IF letter.status # IN_TRANSIT THEN letter
    ELSE LET letterProgress ==
                 IF letter.fromFlight = "A" THEN newProgressA ELSE newProgressB
             carryingFlightLanded == FracLE(One, letterProgress)
             receivingFlightLanded ==
                 IF letter.toFlight = "B" THEN FracLE(One, newProgressB)
                 ELSE FracLE(One, newProgressA)
             updatedLetter == [letter EXCEPT !.animationProgress = letterProgress]
         IN  IF carryingFlightLanded /\ receivingFlightLanded
             THEN [updatedLetter EXCEPT !.status = DELIVERED, !.deliveredAt = t]
             ELSE updatedLetter

\* ----------------------------------------------------------------- actions

\* What the screens' handlers read of a letter of their letters state.
Shown(list) == [i \in DOMAIN list |-> [id |-> list[i].id, status |-> list[i].status]]

\* Flight pairs the map screen is opened with.
FlightPairs ==
    { [A |-> [departureUTC |-> T0, arrivalUTC |-> T0 + 150000],
       B |-> [departureUTC |-> T0, arrivalUTC |-> T0 + 300000]],
      [A |-> [departureUTC |-> T0 - 60000, arrivalUTC |-> T0 + 30000],
       B |-> [departureUTC |-> T0 - 60000, arrivalUTC |-> T0 + 30000]] }

\* Step of the progress calculator's input grid, in milliseconds.
TimeUnit == 60 * 1000

\* Timestamps given to the progress calculator: a grid, and a string that
\* is no ISO date.
Stamps == {k * TimeUnit : k \in 0..MaxStamp} \cup {Malformed}

\* Time passes: the clock reaches a later instant of S.
Advance(S) ==
    /\ \E t \in S : t > now /\ now' = t
    /\ op' = "tick"
    /\ UNCHANGED <<rev, letters, shown, failed, saves, flights, fp, engineVars, taskVars, serviceVars>>

Tick == Advance(Instants)

ScenarioTick == Advance(ScenarioInstants)

RetentionTick == Advance(RetentionInstants)

\* The clock while storage calls are in flight: within one transit.
ShortTick == Advance({T0, T0 + 15000, T0 + 30000})

SaveLetter ==
    /\ saves < MaxSaves
    /\ saves' = saves + 1
    /\ \E delay \in Delays :
        \/ /\ rev = REV_CURRENT
           /\ \E currentUser \in Users :
                letters' = SaveLetterCurrent(currentUser, delay)
        \/ /\ rev = REV_TESTFLIGHTS
           /\ letters' = SaveLetterTestFlights(letters, delay)
    /\ failed' = FALSE
    /\ op' = "saveLetter"
    /\ UNCHANGED <<now, rev, shown, flights, fp, engineVars, taskVars, serviceVars>>

\* The timer tick of the letters and map screens: processLetterStatuses,
\* then setLetters with what it returned.
ProcessLetterStatuses ==
    /\ letters' = ProcessList(letters, now, rev)
    /\ shown' = Shown(letters')
    /\ failed' = FALSE
    /\ op' = "processLetterStatuses"
    /\ UNCHANGED <<now, rev, saves, flights, fp, engineVars, taskVars, serviceVars>>

\* The Mark-as-Read handlers: guarded by the status the screen shows, then
\* markLetterAsRead and a refresh through processLetterStatuses.
HandleMarkAsRead ==
    /\ \E i \in DOMAIN shown :
        /\ shown[i].status = DELIVERED
        /\ letters' = ProcessList(MarkLetterAsRead(letters, shown[i].id, now), now, rev)
    /\ shown' = Shown(letters')
    /\ failed' = FALSE
    /\ op' = "markLetterAsRead"
    /\ UNCHANGED <<now, rev, saves, flights, fp, engineVars, taskVars, serviceVars>>

\* clearAllLetters: the storage key is removed.
ClearAllLetters ==
    /\ letters' = <<>>
    /\ failed' = FALSE
    /\ op' = "clearAllLetters"
    /\ UNCHANGED <<now, rev, shown, saves, flights, fp, engineVars, taskVars, serviceVars>>

\* clearOldLetters(3), as the map screen calls it on mount.
ClearOldLetters ==
    /\ letters' = SelectSeq(letters, LAMBDA l : KeptByClearOld(l, now, OlderThanDays))
    /\ failed' = FALSE
    /\ op' = "clearOldLetters"
    /\ UNCHANGED <<now, rev, shown, saves, flights, fp, engineVars, taskVars, serviceVars>>

\* performSync when fetchRemoteLetters succeeds: merge and store. The handler
\* is taken as one step: the list it read is the list it writes over.
PerformSyncOnline ==
    /\ letters' = mergeLetterData(letters, MockRemoteLetters(now))
    /\ failed' = FALSE
    /\ op' = "performSync online"
    /\ UNCHANGED <<now, rev, shown, saves, flights, fp, engineVars, taskVars, serviceVars>>

\* performSync when fetchRemoteLetters fails: estimate every local letter and
\* store the estimates; an exception is caught and reported as success: false
\* before anything is stored.
PerformSyncOffline ==
    /\ IF \E i \in DOMAIN letters : EstimateThrows(letters[i], now)
       THEN /\ letters' = letters
            /\ failed' = TRUE
       ELSE /\ letters' = [i \in DOMAIN letters |-> estimateLetterProgress(letters[i], now)]
            /\ failed' = FALSE
    /\ op' = "performSync offline"
    /\ UNCHANGED <<now, rev, shown, saves, flights, fp, engineVars, taskVars, serviceVars>>

\* updateData of the flight-driven map screen: in-transit letters follow the
\* carrying flight and are stored; setLetters with the updated list.
MapUpdateData ==
    /\ LET newProgressA ==
               flightProgressPercent(flights.A.departureUTC, flights.A.arrivalUTC, now)
           newProgressB ==
               flightProgressPercent(flights.B.departureUTC, flights.B.arrivalUTC, now)
       IN  letters' = [i \in DOMAIN letters |->
                          MapUpdateLetter(letters[i], newProgressA, newProgressB, now)]
    /\ shown' = Shown(letters')
    /\ failed' = FALSE
    /\ op' = "updateData"
    /\ UNCHANGED <<now, rev, saves, flights, fp, engineVars, taskVars, serviceVars>>

\* One call of flightProgressPercent on the inputs held in fp.
ComputeProgress ==
    /\ fp' = [fp EXCEPT
                !.progress = flightProgressPercent(fp.departureUTC, fp.arrivalUTC, fp.nowISO),
                !.computed = TRUE]
    /\ op' = "flightProgressPercent"
    /\ UNCHANGED <<now, rev, letters, shown, failed, saves, flights, engineVars, taskVars, serviceVars>>

\* The caller's clock moves on to a later stamp of the grid; the caller keeps
\* the progress it computed last.
AdvanceNowISO ==
    /\ fp.nowISO # Malformed
    /\ \E t \in Stamps :
        /\ t > fp.nowISO
        /\ fp' = [fp EXCEPT !.nowISO = t,
                            !.computed = FALSE,
                            !.previous = IF fp.computed THEN <<fp.progress>> ELSE @]
    /\ op' = "tick"
    /\ UNCHANGED <<now, rev, letters, shown, failed, saves, flights, engineVars, taskVars, serviceVars>>

\* updateFlights of FlightSimulation, at the caller's clock: every flight of
\* the Map is replaced by its updateFlightData.
UpdateFlights ==
    /\ fp.nowISO # Malformed
    /\ sim' = updateFlightData(sim, fp.nowISO)
    /\ op' = "updateFlights"
    /\ UNCHANGED <<now, rev, letters, shown, failed, saves, flights, fp, interp, tracker, taskVars, serviceVars>>

\* The flightData of a flight that was never given to FlightSimulation's clock.
SimIdle == addFlight([departureUTC |-> 0, arrivalUTC |-> 0], 0)

\* Waypoints (degrees) and the routes made of them.
Points ==
    { [latitude |-> <<0, 1>>, longitude |-> <<0, 1>>],
      [latitude |-> <<10, 1>>, longitude |-> <<10, 1>>],
      [latitude |-> <<20, 1>>, longitude |-> <<0, 1>>] }

Routes == UNION {[1..n -> Points] : n \in 1..MaxRoute}

\* Progress values given to the interpolators: quarters from -1/4 to 5/4.
ProgressGrid == {Frac(k, 4) : k \in -1..5}

\* No interpolation asked for yet.
InterpIdle ==
    [route |-> <<>>, progress |-> Zero, point |-> Null, reads |-> {}]

\* The map screen places a marker: interpolateRoute on the inputs of interp.
InterpolateRoute ==
    /\ interp.route # <<>>
    /\ interp' = [interp EXCEPT
                    !.point = interpolateRoute(interp.route, interp.progress),
                    !.reads = RouteIndices(interp.route, interp.progress)]
    /\ op' = "interpolateRoute"
    /\ UNCHANGED <<now, rev, letters, shown, failed, saves, flights, fp, sim, tracker, taskVars, serviceVars>>

\* FlightSimulation computes currentPosition: interpolatePosition on the
\* inputs of interp.
InterpolatePosition ==
    /\ interp.route # <<>>
    /\ interp' = [interp EXCEPT
                    !.point = interpolatePosition(interp.route, interp.progress),
                    !.reads = RouteIndices(interp.route, interp.progress)]
    /\ op' = "interpolatePosition"
    /\ UNCHANGED <<now, rev, letters, shown, failed, saves, flights, fp, sim, tracker, taskVars, serviceVars>>

\* Values of getFlightProgress, Math.min(1, Math.random() * 1.2).
FlightProgressValues == {Zero, <<1, 4>>, <<1, 2>>, One}

\* createLetter of LetterTrackingSystem, while the Map has room.
TrackerCreateLetter ==
    /\ Len(tracker) < MaxTracked
    /\ \E scheduledAt \in Instants :
        tracker' = Append(tracker, createLetter(Len(tracker) + 1, scheduledAt))
    /\ op' = "createLetter"
    /\ UNCHANGED <<now, rev, letters, shown, failed, saves, flights, fp, sim, interp, taskVars, serviceVars>>

\* A direct call of one of the status methods on a letter of the Map.
TrackerCall ==
    /\ \E id \in DOMAIN tracker :
        \/ /\ \E scheduledTime \in Instants :
                tracker' = [tracker EXCEPT ![id] = scheduleLetter(@, scheduledTime).letter]
           /\ op' = "scheduleLetter"
        \/ /\ tracker' = [tracker EXCEPT ![id] = startTransit(@).letter]
           /\ op' = "startTransit"
        \/ /\ \E progress \in FlightProgressValues :
                tracker' = [tracker EXCEPT ![id] = updateLetterProgress(@, progress, now).letter]
           /\ op' = "updateLetterProgress"
        \/ /\ tracker' = [tracker EXCEPT ![id] = deliverLetter(@, now).letter]
           /\ op' = "deliverLetter"
        \/ /\ tracker' = [tracker EXCEPT ![id] = markLetterAsRead(@, now).letter]
           /\ op' = "markLetterAsRead"
    /\ UNCHANGED <<now, rev, letters, shown, failed, saves, flights, fp, sim, interp, taskVars, serviceVars>>

\* The tracking interval: one processLetterStatuses pass over the Map.
TrackerProcessLetterStatuses ==
    /\ \E flightProgress \in [DOMAIN tracker -> FlightProgressValues] :
        tracker' = ProcessTrackedFrom(tracker, 1, now, flightProgress)
    /\ op' = "processLetterStatuses"
    /\ UNCHANGED <<now, rev, letters, shown, failed, saves, flights, fp, sim, interp, taskVars, serviceVars>>

\* The callers of processLetterStatuses: the screen's interval, and the
\* Mark-as-Read handler once markLetterAsRead has returned.
Callers == {"timer", "handler"}

\* No call in flight.
PassIdle == [pc |-> "idle", copy |-> <<>>]
MarkIdle == [pc |-> "idle", copy |-> <<>>, id |-> Null, readAt |-> Null, returned |-> Null]

\* processLetterStatuses up to its first await: getLetters reads the list.
PassRead(caller) ==
    /\ pass[caller].pc = "idle"
    /\ caller = "handler" => mark.pc = "returned"
    /\ pass' = [pass EXCEPT ![caller] = [pc |-> "read", copy |-> letters]]
    /\ mark' = IF caller = "handler" THEN [mark EXCEPT !.pc = "refreshing"] ELSE mark
    /\ op' = "getLetters"
    /\ UNCHANGED <<now, rev, letters, shown, failed, saves, flights, fp, engineVars, serviceVars>>

\* processLetterStatuses from getLetters to setItem: the loop over the list
\* it read, and the write when hasUpdates.
PassWrite(caller) ==
    /\ pass[caller].pc = "read"
    /\ LET updated == ProcessList(pass[caller].copy, now, rev)
       IN  /\ letters' = IF HasUpdates(pass[caller].copy, now) THEN updated ELSE letters
           /\ pass' = [pass EXCEPT ![caller] = [pc |-> "written", copy |-> updated]]
    /\ op' = "setItem"
    /\ UNCHANGED <<now, rev, shown, failed, saves, flights, fp, engineVars, mark, serviceVars>>

\* processLetterStatuses returns its list and the caller calls setLetters.
PassReturn(caller) ==
    /\ pass[caller].pc = "written"
    /\ shown' = Shown(pass[caller].copy)
    /\ pass' = [pass EXCEPT ![caller] = PassIdle]
    /\ mark' = IF caller = "handler" THEN [mark EXCEPT !.pc = "done"] ELSE mark
    /\ op' = "processLetterStatuses"
    /\ UNCHANGED <<now, rev, letters, failed, saves, flights, fp, engineVars, serviceVars>>

\* The user taps Mark as Read on a letter the screen shows as delivered:
\* markLetterAsRead builds its updates and awaits getLetters.
MarkStart ==
    /\ mark.pc = "idle"
    /\ \E i \in DOMAIN shown :
        /\ shown[i].status = DELIVERED
        /\ mark' = [mark EXCEPT !.pc = "started", !.id = shown[i].id, !.readAt = now]
    /\ op' = "markLetterAsRead"
    /\ UNCHANGED <<now, rev, letters, shown, failed, saves, flights, fp, engineVars, pass, serviceVars>>

\* getLetters of updateLetter reads the list.
MarkRead ==
    /\ mark.pc = "started"
    /\ mark' = [mark EXCEPT !.pc = "read", !.copy = letters]
    /\ op' = "getLetters"
    /\ UNCHANGED <<now, rev, letters, shown, failed, saves, flights, fp, engineVars, pass, serviceVars>>

\* updateLetter from getLetters to its return: the letter of the list it
\* read is replaced and the list written, or null is returned.
MarkWrite ==
    /\ mark.pc = "read"
    /\ LET index == FindIndex(mark.copy, mark.id)
       IN  /\ letters' = IF index > 0
                         THEN MarkLetterAsRead(mark.copy, mark.id, mark.readAt)
                         ELSE letters
           /\ mark' = [mark EXCEPT !.pc = "returned", !.copy = <<>>,
                                   !.returned = IF index > 0 THEN mark.id ELSE Null]
    /\ op' = "updateLetter"
    /\ UNCHANGED <<now, rev, shown, failed, saves, flights, fp, engineVars, pass, serviceVars>>

FpIdle ==
    [departureUTC |-> 0, arrivalUTC |-> 0, nowISO |-> 0, progress |-> Zero, computed |-> FALSE,
     previous |-> <<>>]

\* The app after a fresh install: an empty letter store.
Init ==
    /\ now = T0
    /\ rev \in Revisions
    /\ letters = <<>>
    /\ shown = <<>>
    /\ failed = FALSE
    /\ saves = 0
    /\ op = "init"
    /\ flights \in FlightPairs
    /\ fp = FpIdle
    /\ sim = SimIdle
    /\ interp = InterpIdle
    /\ tracker = <<>>
    /\ pass = [caller \in Callers |-> PassIdle]
    /\ mark = MarkIdle
    /\ merge = <<>>
    /\ movie = <<>>
    /\ run = <<>>

Next ==
    \/ Tick
    \/ SaveLetter
    \/ ProcessLetterStatuses
    \/ HandleMarkAsRead
    \/ PerformSyncOnline
    \/ PerformSyncOffline
    \/ MapUpdateData

Spec == Init /\ [][Next]_vars

\* The progress calculators on their own: every input triple of the grid,
\* the same flight given to flightProgressPercent and to FlightSimulation.
InitProgress ==
    /\ now = T0
    /\ rev = REV_CURRENT
    /\ letters = <<>>
    /\ shown = <<>>
    /\ failed = FALSE
    /\ saves = 0
    /\ op = "init"
    /\ flights \in FlightPairs
    /\ fp \in [departureUTC : Stamps, arrivalUTC : Stamps, nowISO : Stamps,
               progress : {Zero}, computed : {FALSE}, previous : {<<>>}]
    /\ sim = addFlight(fp, 0)
    /\ interp = InterpIdle
    /\ tracker = <<>>
    /\ pass = [caller \in Callers |-> PassIdle]
    /\ mark = MarkIdle
    /\ merge = <<>>
    /\ movie = <<>>
    /\ run = <<>>

NextProgress ==
    \/ ComputeProgress
    \/ AdvanceNowISO
    \/ UpdateFlights

SpecProgress == InitProgress /\ [][NextProgress]_vars

\* The route interpolators on their own: every route and progress of the grid.
InitRoute ==
    /\ now = T0
    /\ rev = REV_CURRENT
    /\ letters = <<>>
    /\ shown = <<>>
    /\ failed = FALSE
    /\ saves = 0
    /\ op = "init"
    /\ flights \in FlightPairs
    /\ fp = FpIdle
    /\ sim = SimIdle
    /\ interp \in [route : Routes, progress : ProgressGrid, point : {Null}, reads : {{}}]
    /\ tracker = <<>>
    /\ pass = [caller \in Callers |-> PassIdle]
    /\ mark = MarkIdle
    /\ merge = <<>>
    /\ movie = <<>>
    /\ run = <<>>

NextRoute ==
    \/ InterpolateRoute
    \/ InterpolatePosition

SpecRoute == InitRoute /\ [][NextRoute]_vars

\* Letters that loadFromStorage finds under the storage key: written by an
\* earlier run or another revision, of any status, with or without the
\* trackingHistory array.
StoredTracked ==
    { [createLetter(1, T0) EXCEPT !.status = st, !.trackingHistory = h] :
        st \in TRACKING_STATUS, h \in BOOLEAN }

\* LetterTrackingSystem after initialize().
InitTracking ==
    /\ now = T0
    /\ rev = REV_CURRENT
    /\ letters = <<>>
    /\ shown = <<>>
    /\ failed = FALSE
    /\ saves = 0
    /\ op = "init"
    /\ flights \in FlightPairs
    /\ fp = FpIdle
    /\ sim = SimIdle
    /\ interp = InterpIdle
    /\ tracker \in {<<>>} \cup {<<l>> : l \in StoredTracked}
    /\ pass = [caller \in Callers |-> PassIdle]
    /\ mark = MarkIdle
    /\ merge = <<>>
    /\ movie = <<>>
    /\ run = <<>>

NextTracking ==
    \/ Tick
    \/ TrackerCreateLetter
    \/ TrackerCall
    \/ TrackerProcessLetterStatuses

SpecTracking == InitTracking /\ [][NextTracking]_vars

\* The storage module and its screen callers alone: no sync, no map update.
NextStore ==
    \/ Tick
    \/ SaveLetter
    \/ ProcessLetterStatuses
    \/ HandleMarkAsRead

SpecStore == Init /\ [][NextStore]_vars

\* The store over days: every operation that writes the letter list.
NextRetention ==
    \/ RetentionTick
    \/ SaveLetter
    \/ ProcessLetterStatuses
    \/ HandleMarkAsRead
    \/ PerformSyncOnline
    \/ PerformSyncOffline
    \/ ClearAllLetters
    \/ ClearOldLetters

SpecRetention == Init /\ [][NextRetention]_vars

\* The letter store with the awaits of its callers: the screen's interval
\* and the Mark-as-Read handler run their storage calls step by step.
NextInterleave ==
    \/ ShortTick
    \/ SaveLetter
    \/ PerformSyncOnline
    \/ \E caller \in Callers : PassRead(caller)
    \/ \E caller \in Callers : PassWrite(caller)
    \/ \E caller \in Callers : PassReturn(caller)
    \/ MarkStart
    \/ MarkRead
    \/ MarkWrite

SpecInterleave == Init /\ [][NextInterleave]_vars

\* The 300-second delivery scenario: letters are saved and the recompute pass
\* runs at the scenario's instants.
NextScenario ==
    \/ ScenarioTick
    \/ SaveLetter
    \/ ProcessLetterStatuses

SpecScenario == Init /\ [][NextScenario]_vars

\* A store that already holds letters, written by an earlier run, some of
\* them without a usable scheduledSendUTC.
StoredLetter(id, scheduledSendUTC) ==
    [ id |-> id,
      createdAt |-> T0,
      scheduledSendUTC |-> scheduledSendUTC,
      deliveredAt |-> Null,
      readAt |-> Null,
      status |-> SCHEDULED,
      fromFlight |-> "A",
      toFlight |-> "B",
      animationProgress |-> Zero ]

StoredStamps == {Malformed, T0, T0 + 60000}

StoredLists ==
    {<<StoredLetter(1, s)>> : s \in StoredStamps}
        \cup {<<StoredLetter(1, s1), StoredLetter(2, s2)>> :
                s1 \in StoredStamps, s2 \in StoredStamps}

InitMalformed ==
    /\ now = T0
    /\ rev \in Revisions
    /\ letters \in StoredLists
    /\ shown = <<>>
    /\ failed = FALSE
    /\ saves = 0
    /\ op = "init"
    /\ flights \in FlightPairs
    /\ fp = FpIdle
    /\ sim = SimIdle
    /\ interp = InterpIdle
    /\ tracker = <<>>
    /\ pass = [caller \in Callers |-> PassIdle]
    /\ mark = MarkIdle
    /\ merge = <<>>
    /\ movie = <<>>
    /\ run = <<>>

NextMalformed ==
    \/ Tick
    \/ ProcessLetterStatuses
    \/ PerformSyncOnline
    \/ PerformSyncOffline

SpecMalformed == InitMalformed /\ [][NextMalformed]_vars

\* ------------------------------------------------- the services on their own

\* Everything the services below leave alone.
appVars ==
    <<now, rev, letters, shown, failed, saves, flights, fp, engineVars, taskVars>>

\* Letter lists with unique ids, as the store and the server hold them; of a
\* letter's fields the merge reads id and status, and fromFlight stands for
\* the rest (origin "A" in the local list, "B" in the remote list).
MergeLists(origin) ==
    { list \in UNION {[1..n -> [id : 1..MaxMerge, status : LETTER_STATUS,
                                fromFlight : {origin}]] : n \in 0..MaxMerge} :
        \A i \in DOMAIN list : \A j \in DOMAIN list : list[i].id = list[j].id => i = j }

\* performSync merges what the server returned into the list it holds: the
\* first call merges the local list, a later call the list the call before
\* returned, with the same remote list.
MergeLetterData ==
    /\ Len(merge.results) < 2
    /\ LET held == IF merge.results = <<>> THEN merge.local
                   ELSE merge.results[Len(merge.results)]
       IN  merge' = [merge EXCEPT !.results = Append(@, mergeLetterData(held, merge.remote))]
    /\ op' = "mergeLetterData"
    /\ UNCHANGED <<appVars, movie, run>>

\* mergeLetterData on its own: every pair of lists.
InitMerge ==
    /\ now = T0
    /\ rev = REV_CURRENT
    /\ letters = <<>>
    /\ shown = <<>>
    /\ failed = FALSE
    /\ saves = 0
    /\ op = "init"
    /\ flights = <<>>
    /\ fp = FpIdle
    /\ sim = SimIdle
    /\ interp = InterpIdle
    /\ tracker = <<>>
    /\ pass = [caller \in Callers |-> PassIdle]
    /\ mark = MarkIdle
    /\ merge \in [local : MergeLists("A"), remote : MergeLists("B"), results : {<<>>}]
    /\ movie = <<>>
    /\ run = <<>>

SpecMerge == InitMerge /\ [][MergeLetterData]_vars


\* The movie service and the movie screens when the screen is focused:
\* departureUTC is the departure of the user's flight in defaultFlights,
\* duration is movie.duration, flightData and currentUser are what storage
\* holds under @airletters_flight_data (json says whether the key is absent,
\* no JSON, or an object; flightA and flightB are the departureUTC of the two
\* flights, Null for none) and @airletters_current_user ("" for none, falsy
\* like the null it stands for). Nothing is scheduled,
\* no reminder key is set, no call is in flight.
MovieService(departureUTC, duration, flightData, currentUser) ==
    [ departureUTC |-> departureUTC,
      duration |-> duration,
      flightData |-> flightData,
      currentUser |-> currentUser,
      position |-> [status |-> "none", position |-> Zero],
      available |-> [canPlay |-> FALSE, timeUntil |-> Null],
      startTime |-> Null,
      lastReminder |-> Null,
      notificationId |-> Null,
      prepNotificationId |-> Null,
      scheduled |-> {},
      issued |-> 0,
      checks |-> [c \in 1..MaxChecks |-> Null],
      shown |-> <<>> ]

\* updateMovieStatus of MovieTimeScreen, started by the timer, up to the
\* await inside checkMovieStartReminder: the position is computed and set,
\* the reminder keys are read and the reminder decided at the clock. Without
\* a reminder the call is over; with one it goes on to write the clock value
\* it decided at, kept in checks[c].
UpdateMovieStatus(c) ==
    /\ movie.currentUser # ""
    /\ movie.checks[c] = Null
    /\ LET movieStartTime == calculateMovieStartTime(movie.departureUTC, now)
           reminder == checkMovieStartReminder(movie.startTime, movie.lastReminder, now)
       IN  movie' = [movie EXCEPT
                        !.position = getCurrentMoviePosition(movieStartTime, movie.duration, now),
                        !.checks[c] = IF reminder = "none" THEN Null ELSE now]
    /\ op' = "updateMovieStatus"
    /\ UNCHANGED <<appVars, merge, run>>

\* The rest of checkMovieStartReminder and of updateMovieStatus: the clock
\* value is written to @movie_last_reminder, the reminder is returned with
\* shouldShow true and the alert is shown. shown keeps the clock values of the
\* last two calls that returned a reminder.
ShowReminder(c) ==
    /\ movie.checks[c] # Null
    /\ movie' = [movie EXCEPT
                    !.lastReminder = movie.checks[c],
                    !.shown = IF Len(@) < 2 THEN Append(@, movie.checks[c])
                              ELSE <<@[2], movie.checks[c]>>,
                    !.checks[c] = Null]
    /\ op' = "checkMovieStartReminder"
    /\ UNCHANGED <<appVars, merge, run>>

\* updateMovieStatus of the movie player screen: canPlayMovie, then
\* getTimeUntilMovieAvailable, both at the clock.
CheckAvailability ==
    /\ movie.currentUser # ""
    /\ movie' = [movie EXCEPT
                    !.available =
                        [ canPlay |-> canPlayMovie(movie.flightData, movie.currentUser, now),
                          timeUntil |-> getTimeUntilMovieAvailable(movie.flightData,
                                                                   movie.currentUser, now) ]]
    /\ op' = "canPlayMovie"
    /\ UNCHANGED <<appVars, merge, run>>

\* scheduleMovieStartNotification(movieStartTime, movieTitle). Without
\* permission the start time is stored for the manual reminder. With it the
\* existing notifications are cancelled and the two scheduling requests are
\* made: the ids are stored when both succeed, and when one throws the catch
\* block stores the start time for the manual reminder. The operating system
\* gives the ids issued + 1, issued + 2.
ScheduleMovieStartNotification ==
    /\ \E movieStartTime \in {T0 + 60000, T0 + 15 * 60000} :
       \E outcome \in {"no permission", "first throws", "second throws", "scheduled"} :
        LET cancelled == cancelMovieNotification(movie)
            first == movie.issued + 1
            second == movie.issued + 2
        IN  CASE outcome = "no permission" ->
                    movie' = [movie EXCEPT !.startTime = movieStartTime]
              [] outcome = "first throws" ->
                    movie' = [cancelled EXCEPT !.startTime = movieStartTime]
              [] outcome = "second throws" ->
                    /\ first <= MaxNotifications
                    /\ movie' = [cancelled EXCEPT !.scheduled = @ \cup {first},
                                                  !.issued = first,
                                                  !.startTime = movieStartTime]
              [] outcome = "scheduled" ->
                    /\ second <= MaxNotifications
                    /\ movie' = [cancelled EXCEPT !.scheduled = @ \cup {first, second},
                                                  !.issued = second,
                                                  !.notificationId = first,
                                                  !.prepNotificationId = second]
    /\ op' = "scheduleMovieStartNotification"
    /\ UNCHANGED <<appVars, merge, run>>

CancelMovieNotification ==
    /\ movie' = cancelMovieNotification(movie)
    /\ op' = "cancelMovieNotification"
    /\ UNCHANGED <<appVars, merge, run>>

\* The movie service with its reminder and its notifications; the screen
\* shows the movie of user A's default flight.
InitMovie ==
    /\ now = T0
    /\ rev = REV_CURRENT
    /\ letters = <<>>
    /\ shown = <<>>
    /\ failed = FALSE
    /\ saves = 0
    /\ op = "init"
    /\ flights = <<>>
    /\ fp = FpIdle
    /\ sim = SimIdle
    /\ interp = InterpIdle
    /\ tracker = <<>>
    /\ pass = [caller \in Callers |-> PassIdle]
    /\ mark = MarkIdle
    /\ merge = <<>>
    /\ movie = MovieService(T0 + 60000 - 45 * 60000, 5,
                            [json |-> "absent", flightA |-> Null, flightB |-> Null], "A")
    /\ run = <<>>

NextMovie ==
    \/ Tick
    \/ \E c \in 1..MaxChecks : UpdateMovieStatus(c)
    \/ \E c \in 1..MaxChecks : ShowReminder(c)
    \/ ScheduleMovieStartNotification
    \/ CancelMovieNotification

SpecMovie == InitMovie /\ [][NextMovie]_vars

\* The movie's position and availability on their own: every departure,
\* duration, stored flight data and user.
InitPlayback ==
    /\ now = T0
    /\ rev = REV_CURRENT
    /\ letters = <<>>
    /\ shown = <<>>
    /\ failed = FALSE
    /\ saves = 0
    /\ op = "init"
    /\ flights = <<>>
    /\ fp = FpIdle
    /\ sim = SimIdle
    /\ interp = InterpIdle
    /\ tracker = <<>>
    /\ pass = [caller \in Callers |-> PassIdle]
    /\ mark = MarkIdle
    /\ merge = <<>>
    /\ LET departures ==
               {Malformed, T0 - 50 * 60000, T0 - 45 * 60000, T0 - 45 * 60000 + 15000,
                T0 - 30000, T0}
           stored ==
               [json : {"object"}, flightA : departures \cup {Null},
                flightB : departures \cup {Null}]
                   \cup [json : {"absent", "no JSON"}, flightA : {Null}, flightB : {Null}]
       IN  \E departureUTC \in departures, duration \in {1, 5},
              flightData \in stored, currentUser \in Users \cup {""} :
                movie = MovieService(departureUTC, duration, flightData, currentUser)
    /\ run = <<>>

NextPlayback ==
    \/ Tick
    \/ \E c \in 1..MaxChecks : UpdateMovieStatus(c)
    \/ CheckAvailability

SpecPlayback == InitPlayback /\ [][NextPlayback]_vars

\* What an operation of an engine notified: the event, the flight or letter
\* it is about (0 for none), and the listeners called.
Notified(r, name, id, listeners) ==
    [r EXCEPT !.event = [name |-> name, id |-> id],
              !.called = notifyListeners(listeners).called]

\* start(): nothing when an interval is set; otherwise setInterval, whose
\* handle is one no active interval has.
SimStart ==
    /\ IF run.updateInterval # Null
       THEN run' = [run EXCEPT !.event = [name |-> "none", id |-> 0], !.called = {}]
       ELSE LET handle == CHOOSE h \in 1..(Cardinality(run.active) + 1) : h \notin run.active
                started == [run EXCEPT !.updateInterval = handle,
                                       !.active = @ \cup {handle},
                                       !.lifecycle = "simulationStarted"]
            IN  run' = Notified(started, "simulationStarted", 0, run.listeners)
    /\ op' = "start"
    /\ UNCHANGED <<appVars, merge, movie>>

\* stop() on the state r of FlightSimulation.
SimStopped(r) ==
    Notified([r EXCEPT !.active = @ \ {r.updateInterval},
                       !.updateInterval = Null,
                       !.lifecycle = "simulationStopped"],
             "simulationStopped", 0, r.listeners)

SimStop ==
    /\ run' = SimStopped(run)
    /\ op' = "stop"
    /\ UNCHANGED <<appVars, merge, movie>>

\* cleanup(): stop(), then the Map and the Set are cleared unless stop threw.
SimCleanup ==
    /\ run' = IF notifyListeners(run.listeners).thrown THEN SimStopped(run)
              ELSE [SimStopped(run) EXCEPT !.flights = <<>>, !.listeners = <<>>]
    /\ op' = "cleanup"
    /\ UNCHANGED <<appVars, merge, movie>>

\* addFlight(flight) with a flight id of the bound; the Map entry is set
\* before the listeners are notified.
SimAddFlight ==
    /\ \E id \in 1..MaxFlights :
        LET flightData == addFlight([departureUTC |-> T0 - 30000, arrivalUTC |-> T0 + 120000], now)
            added == [run EXCEPT !.flights =
                          [i \in DOMAIN run.flights \cup {id} |->
                              IF i = id THEN flightData ELSE run.flights[i]]]
        IN  run' = Notified(added, "flightAdded", id, run.listeners)
    /\ op' = "addFlight"
    /\ UNCHANGED <<appVars, merge, movie>>

\* removeFlight(flightId) of a flight the Map holds.
SimRemoveFlight ==
    /\ \E id \in DOMAIN run.flights :
        LET removed == [run EXCEPT !.flights =
                            [i \in DOMAIN run.flights \ {id} |-> run.flights[i]]]
        IN  run' = Notified(removed, "flightRemoved", id, run.listeners)
    /\ op' = "removeFlight"
    /\ UNCHANGED <<appVars, merge, movie>>

\* The interval fires: updateFlights() replaces every flight of the Map and
\* notifies the listeners.
SimUpdateFlights ==
    /\ run.updateInterval # Null
    /\ LET updated == [run EXCEPT !.flights =
                           [i \in DOMAIN run.flights |-> updateFlightData(run.flights[i], now)]]
       IN  run' = Notified(updated, "flightsUpdated", 0, run.listeners)
    /\ op' = "updateFlights"
    /\ UNCHANGED <<appVars, merge, movie>>

\* A method of LetterTrackingSystem that changes a letter's status, with the
\* listeners registered: the letter is changed, saved, and the listeners are
\* notified last.
TrackerNotified ==
    /\ \/ /\ Len(tracker) < MaxTracked
          /\ tracker' = Append(tracker, createLetter(Len(tracker) + 1, now))
          /\ run' = Notified(run, "letterCreated", Len(tracker) + 1, run.trackingListeners)
       \/ \E id \in DOMAIN tracker :
            \/ /\ tracker' = [tracker EXCEPT ![id] = scheduleLetter(@, now).letter]
               /\ run' = Notified(run, "letterScheduled", id, run.trackingListeners)
            \/ /\ tracker' = [tracker EXCEPT ![id] = startTransit(@).letter]
               /\ run' = Notified(run, "letterInTransit", id, run.trackingListeners)
            \/ /\ tracker' = [tracker EXCEPT ![id] = deliverLetter(@, now).letter]
               /\ run' = Notified(run, "letterDelivered", id, run.trackingListeners)
            \/ /\ tracker' = [tracker EXCEPT ![id] = markLetterAsRead(@, now).letter]
               /\ run' = Notified(run, "letterRead", id, run.trackingListeners)
    /\ op' = "LetterTrackingSystem"
    /\ UNCHANGED <<now, rev, letters, shown, failed, saves, flights, fp, sim, interp, taskVars,
                   merge, movie>>

\* The two engines after construction, with the listeners the app registered
\* with each: every sequence of up to MaxListeners listeners, throwing or
\* not. The clock stands still: no step of the engines waits for it.
InitSimulation ==
    /\ now = T0
    /\ rev = REV_CURRENT
    /\ letters = <<>>
    /\ shown = <<>>
    /\ failed = FALSE
    /\ saves = 0
    /\ op = "init"
    /\ flights = <<>>
    /\ fp = FpIdle
    /\ sim = SimIdle
    /\ interp = InterpIdle
    /\ tracker = <<>>
    /\ pass = [caller \in Callers |-> PassIdle]
    /\ mark = MarkIdle
    /\ merge = <<>>
    /\ movie = <<>>
    /\ LET registered == UNION {[1..n -> BOOLEAN] : n \in 0..MaxListeners}
       IN  run \in [ updateInterval : {Null},
                     active : {{}},
                     lifecycle : {"none"},
                     flights : {<<>>},
                     listeners : registered,
                     trackingListeners : registered,
                     event : {[name |-> "none", id |-> 0]},
                     called : {{}} ]

NextSimulation ==
    \/ SimStart
    \/ SimStop
    \/ SimCleanup
    \/ SimAddFlight
    \/ SimRemoveFlight
    \/ SimUpdateFlights
    \/ TrackerNotified

SpecSimulation == InitSimulation /\ [][NextSimulation]_vars

\* ------------------------------------------------------------------ claims

\* Letters of the store before and after a step, matched by id.
SameLetter(i, j) == letters[i].id = letters'[j].id

IsValidStamp(x) == x # Malformed /\ x # Null

\* C1: for every stored letter and every step of processLetterStatuses,
\* markLetterAsRead and performSync, the status never moves backwards in the
\* order scheduled < in_transit < delivered < read.
C1_StatusNeverMovesBackwards ==
    [][\A i \in DOMAIN letters : \A j \in DOMAIN letters' :
          SameLetter(i, j) =>
              statusPriority(letters'[j].status) >= statusPriority(letters[i].status)]_vars

\* C2: after any sequence of saveLetter and processLetterStatuses calls, every
\* stored letter in transit has an animationProgress within [0, 1].
C2_TransitProgressWithinUnitInterval ==
    \A i \in DOMAIN letters :
        letters[i].status = IN_TRANSIT =>
            /\ FracLE(Zero, letters[i].animationProgress)
            /\ FracLE(letters[i].animationProgress, One)

\* C3: no letter is in transit, delivered or read while the clock is still
\* before its scheduledSendUTC.
C3_NoDepartureBeforeScheduledTime ==
    \A i \in DOMAIN letters :
        letters[i].status # SCHEDULED =>
            TimeGE(now, DateParse(letters[i].scheduledSendUTC))

\* C4: a processLetterStatuses pass at time now delivers an in-transit letter
\* exactly when now - scheduledSendUTC >= the transit duration, with progress
\* 1 and deliveredAt = now; otherwise the letter stays in transit.
C4_DeliveredExactlyWhenTransitElapsed ==
    [][ProcessLetterStatuses =>
          \A i \in DOMAIN letters :
              letters[i].status = IN_TRANSIT =>
                  IF now - letters[i].scheduledSendUTC >= TransitDuration(rev)
                  THEN /\ letters'[i].status = DELIVERED
                       /\ letters'[i].animationProgress = One
                       /\ letters'[i].deliveredAt = now
                  ELSE /\ letters'[i].status = IN_TRANSIT
                       /\ letters'[i].deliveredAt = letters[i].deliveredAt]_vars

\* A pass has just delivered a letter at the very instant its transit ended.
C4_Witness ==
    /\ op = "processLetterStatuses"
    /\ \E i \in DOMAIN letters :
        /\ letters[i].status = DELIVERED
        /\ letters[i].deliveredAt = now
        /\ now - letters[i].scheduledSendUTC = TransitDuration(rev)

\* C5: a processLetterStatuses pass leaves every letter that is already
\* delivered or read unchanged in every field, whatever the clock shows.
C5_PassLeavesDeliveredAndReadAlone ==
    [][ProcessLetterStatuses =>
          \A i \in DOMAIN letters :
              letters[i].status \in {DELIVERED, READ} => letters'[i] = letters[i]]_vars

\* A pass has run over a letter delivered earlier and a letter read earlier.
C5_Witness ==
    /\ op = "processLetterStatuses"
    /\ \E i \in DOMAIN letters :
        letters[i].status = DELIVERED /\ letters[i].deliveredAt < now
    /\ \E i \in DOMAIN letters :
        letters[i].status = READ /\ letters[i].readAt < now

\* C6: right after a processLetterStatuses pass, a second pass at the same
\* clock value returns and stores the list the first one left.
C6_SecondPassChangesNothing ==
    op = "processLetterStatuses" =>
        /\ ProcessList(letters, now, rev) = letters
        /\ Shown(ProcessList(letters, now, rev)) = shown

\* A pass has run and left a letter part-way through its transit, so that a
\* second pass has a progress to recompute.
C6_Witness ==
    /\ op = "processLetterStatuses"
    /\ \E i \in DOMAIN letters :
        /\ letters[i].status = IN_TRANSIT
        /\ FracLT(Zero, letters[i].animationProgress)
        /\ FracLT(letters[i].animationProgress, One)

\* C7: a letter becomes read only through markLetterAsRead, never through a
\* time-driven operation, and only a letter whose status is delivered
\* becomes read.
C7_ReadOnlyByMarkingADeliveredLetter ==
    [][\A i \in DOMAIN letters : \A j \in DOMAIN letters' :
          (SameLetter(i, j) /\ letters[i].status # READ /\ letters'[j].status = READ) =>
              /\ op' = "markLetterAsRead"
              /\ letters[i].status = DELIVERED]_vars

\* C8: with a 300-second transit duration a pass gives, for a letter saved as
\* scheduled with scheduled-send time T: in transit with progress 0 at T,
\* in transit with progress 1/2 at T + 150 s, delivered with progress 1 at
\* T + 300 s, and still delivered at T + 400 s.
C8_DeliveryScenario ==
    (op = "processLetterStatuses" /\ TransitDuration(rev) = 300000) =>
        \A i \in DOMAIN letters :
            LET sinceSend == now - letters[i].scheduledSendUTC
                letter == letters[i]
            IN  /\ sinceSend = 0 =>
                    letter.status = IN_TRANSIT /\ letter.animationProgress = Zero
                /\ sinceSend = 150000 =>
                    letter.status = IN_TRANSIT /\ letter.animationProgress = <<1, 2>>
                /\ sinceSend = 300000 =>
                    letter.status = DELIVERED /\ letter.animationProgress = One
                /\ sinceSend = 400000 =>
                    letter.status = DELIVERED /\ letter.animationProgress = One

\* The pass at T + 400 s has run over a letter the pass at T + 300 s delivered.
C8_Witness ==
    /\ op = "processLetterStatuses"
    /\ TransitDuration(rev) = 300000
    /\ \E i \in DOMAIN letters :
        /\ now - letters[i].scheduledSendUTC = 400000
        /\ letters[i].status = DELIVERED
        /\ letters[i].deliveredAt = letters[i].scheduledSendUTC + 300000

\* C9: a letter without a usable scheduledSendUTC stays scheduled, and
\* processLetterStatuses and performSync complete normally on a store that
\* holds one.
C9_MalformedStaysScheduledAndNothingThrows ==
    /\ \A i \in DOMAIN letters :
        letters[i].scheduledSendUTC = Malformed => letters[i].status = SCHEDULED
    /\ ~failed

\* (now - dep) / (arr - dep) as a fraction, arr # dep.
UnclampedRatio(dep, arr, nw) ==
    IF arr > dep THEN Frac(nw - dep, arr - dep) ELSE Frac(dep - nw, dep - arr)

InUnitInterval(p) == FracLE(Zero, p) /\ FracLE(p, One)

ValidInputs ==
    IsValidStamp(fp.departureUTC) /\ IsValidStamp(fp.arrivalUTC) /\ IsValidStamp(fp.nowISO)

\* C10 as claimed: for all departure, arrival and now timestamps the result
\* is within [0, 1] and equals the unclamped ratio whenever that ratio lies
\* in [0, 1].
C10_ClampedRatioForAllTimestamps ==
    (fp.computed /\ ValidInputs) =>
        /\ InUnitInterval(fp.progress)
        /\ (fp.arrivalUTC # fp.departureUTC
            /\ InUnitInterval(UnclampedRatio(fp.departureUTC, fp.arrivalUTC, fp.nowISO)))
               => fp.progress = UnclampedRatio(fp.departureUTC, fp.arrivalUTC, fp.nowISO)

\* C10 as amended: for all departure, arrival and now timestamps with arrival
\* after departure, the result is clamp((now - dep) / (arr - dep), 0, 1): it
\* is within [0, 1] and equals the unclamped ratio whenever that lies in [0, 1].
C10_ClampedRatioWhenArrivalAfterDeparture ==
    (fp.computed /\ ValidInputs /\ fp.arrivalUTC > fp.departureUTC) =>
        LET ratio == UnclampedRatio(fp.departureUTC, fp.arrivalUTC, fp.nowISO)
        IN  /\ fp.progress = FracMax(Zero, FracMin(ratio, One))
            /\ InUnitInterval(fp.progress)
            /\ InUnitInterval(ratio) => fp.progress = ratio

\* The calculator has been applied strictly inside a flight.
C10_Witness ==
    /\ fp.computed
    /\ ValidInputs
    /\ fp.departureUTC < fp.nowISO
    /\ fp.nowISO < fp.arrivalUTC
    /\ fp.progress = UnclampedRatio(fp.departureUTC, fp.arrivalUTC, fp.nowISO)

\* C11: when arrival is not after departure, every progress computation
\* returns exactly 0 for every value of now: flightProgressPercent, and the
\* progress field updateFlightData produces.
C11_DegenerateFlightHasProgressZero ==
    (ValidInputs /\ fp.arrivalUTC <= fp.departureUTC) =>
        /\ fp.computed => fp.progress = Zero
        /\ op = "updateFlights" => sim.progress = Zero

\* C12: for all departure and arrival timestamps and every now strictly
\* before departure, flightProgressPercent returns 0.
C12_ZeroBeforeDeparture ==
    (fp.computed /\ ValidInputs /\ fp.nowISO < fp.departureUTC) => fp.progress = Zero

\* The calculator has been applied before the departure of a flight that
\* does have a duration.
C12_Witness ==
    /\ fp.computed
    /\ ValidInputs
    /\ fp.nowISO < fp.departureUTC
    /\ fp.departureUTC < fp.arrivalUTC
    /\ fp.progress = Zero

\* C13 as claimed: for all departure and arrival timestamps and every now
\* strictly after arrival, flightProgressPercent returns 1.
C13_OneAfterArrivalForAllTimestamps ==
    (fp.computed /\ ValidInputs /\ fp.nowISO > fp.arrivalUTC) => fp.progress = One

\* C13 as amended: for all departure and arrival timestamps with arrival
\* after departure and every now strictly after arrival,
\* flightProgressPercent returns 1.
C13_OneAfterArrivalOfARealFlight ==
    (fp.computed /\ ValidInputs /\ fp.arrivalUTC > fp.departureUTC
        /\ fp.nowISO > fp.arrivalUTC) => fp.progress = One

\* The calculator has been applied after the arrival of a flight that has a
\* duration.
C13_Witness ==
    /\ fp.computed
    /\ ValidInputs
    /\ fp.departureUTC < fp.arrivalUTC
    /\ fp.arrivalUTC < fp.nowISO
    /\ fp.progress = One

\* C14: for fixed departure and arrival, flightProgressPercent is
\* monotonically non-decreasing in now: the progress computed at a later now
\* is not below the progress computed at an earlier one.
C14_ProgressNeverDecreases ==
    (fp.computed /\ ValidInputs /\ fp.previous # <<>>) =>
        FracLE(fp.previous[1], fp.progress)

\* The calculator has been applied twice inside one flight, the second time
\* later, and the progress has grown.
C14_Witness ==
    /\ fp.computed
    /\ ValidInputs
    /\ fp.previous # <<>>
    /\ FracLT(Zero, fp.previous[1])
    /\ FracLT(fp.previous[1], fp.progress)
    /\ FracLT(fp.progress, One)

\* A route interpolator has just run on the inputs of interp.
Interpolated == op \in {"interpolateRoute", "interpolatePosition"}

\* C15: for every route of N >= 1 points, both route interpolators return
\* exactly route[0] for every progress <= 0 and exactly route[N-1] for every
\* progress >= 1.
C15_EndsOfTheRoute ==
    Interpolated =>
        /\ FracLE(interp.progress, Zero) => interp.point = interp.route[1]
        /\ FracLE(One, interp.progress) => interp.point = interp.route[Len(interp.route)]

\* interpolatePosition has returned the last point of a route that ends
\* elsewhere than it starts, for a progress beyond 1.
C15_Witness ==
    /\ op = "interpolatePosition"
    /\ FracLT(One, interp.progress)
    /\ Len(interp.route) >= 2
    /\ interp.route[1] # interp.route[Len(interp.route)]
    /\ interp.point = interp.route[Len(interp.route)]

\* start + (end - start) * t
Lerp(start, end, t) == FracAdd(start, FracMul(FracSub(end, start), t))

\* The point at fraction progress of the route, by linear interpolation
\* inside segment floor(progress * (N-1)) and nothing else.
LinearPoint(route, progress) ==
    LET scaled == FracMul(progress, <<Len(route) - 1, 1>>)
        k == FracFloor(scaled)
        t == FracSub(scaled, <<k, 1>>)
        a == route[k + 1]
        b == route[IF k + 2 <= Len(route) THEN k + 2 ELSE Len(route)]
    IN  [latitude |-> Lerp(a.latitude, b.latitude, t),
         longitude |-> Lerp(a.longitude, b.longitude, t)]

TwoPointRoute ==
    << [latitude |-> <<0, 1>>, longitude |-> <<0, 1>>],
       [latitude |-> <<10, 1>>, longitude |-> <<10, 1>>] >>

\* C16: for 0 < progress < 1 both route interpolators return the pure linear
\* interpolation inside segment floor(progress * (N-1)), with no other
\* offset: on the route [(0,0), (10,10)] progress 1/4 gives (5/2, 5/2) and
\* progress 1/2 gives the midpoint (5, 5).
C16_PureLinearInterpolation ==
    (Interpolated /\ FracLT(Zero, interp.progress) /\ FracLT(interp.progress, One)) =>
        /\ interp.point = LinearPoint(interp.route, interp.progress)
        /\ (interp.route = TwoPointRoute /\ interp.progress = <<1, 4>>) =>
               interp.point = [latitude |-> <<5, 2>>, longitude |-> <<5, 2>>]
        /\ (interp.route = TwoPointRoute /\ interp.progress = <<1, 2>>) =>
               interp.point = [latitude |-> <<5, 1>>, longitude |-> <<5, 1>>]

\* C17: for every route of length N >= 1 and every progress in [0, 1], the
\* indices a route interpolator reads lie in 0..N-1, and for a route of
\* length 1 the result has the coordinates of that single point.
C17_ReadsInsideTheRoute ==
    (Interpolated /\ FracLE(Zero, interp.progress) /\ FracLE(interp.progress, One)) =>
        /\ interp.reads # {}
        /\ interp.reads \subseteq 0..(Len(interp.route) - 1)
        /\ Len(interp.route) = 1 =>
               /\ interp.point.latitude = interp.route[1].latitude
               /\ interp.point.longitude = interp.route[1].longitude

\* An interpolator has run strictly inside a route of one point, where the
\* segment's far end would lie past the route.
C17_Witness ==
    /\ Interpolated
    /\ Len(interp.route) = 1
    /\ FracLT(Zero, interp.progress)
    /\ FracLT(interp.progress, One)
    /\ interp.reads = {0}
    /\ interp.point = interp.route[1]

C19_OnlyClearingRemovesLetters ==
    [][op' \notin {"clearAllLetters", "clearOldLetters"} =>
          \A i \in DOMAIN letters : \E j \in DOMAIN letters' : SameLetter(i, j)]_vars

\* C20: under every interleaving of markLetterAsRead(id) with a timer-driven
\* processLetterStatuses pass, once markLetterAsRead has returned the updated
\* letter, the stored list shows that letter as read with its readAt after
\* both have finished: the write of a pass leaves the letter read.
C20_MarkedLetterStaysRead ==
    [][(mark.returned # Null /\ \E caller \in Callers : PassWrite(caller)) =>
          \A i \in DOMAIN letters :
              (letters[i].id = mark.returned /\ letters[i].status = READ) =>
                  \E j \in DOMAIN letters' :
                      /\ SameLetter(i, j)
                      /\ letters'[j].status = READ
                      /\ letters'[j].readAt = mark.readAt]_vars

\* The letter of a list with a given id (ids are unique in the lists merged).
WithId(list, id) == list[FindIndex(list, id)]

IdsOf(list) == {list[i].id : i \in DOMAIN list}

\* Math.max on statuses in the order scheduled < in_transit < delivered < read.
HigherStatus(a, b) == IF statusPriority(a) >= statusPriority(b) THEN a ELSE b

\* C21: for every letter id present in both the local and the remote list,
\* the status of the merged letter is the higher of the two statuses in the
\* order scheduled < in_transit < delivered < read, and it is never lower
\* than the local letter's status.
C21_MergePrefersTheMoreAdvancedStatus ==
    merge # <<>> /\ merge.results # <<>> =>
        \A id \in IdsOf(merge.local) \cap IdsOf(merge.remote) :
            LET mergedStatus == WithId(merge.results[1], id).status
                localStatus == WithId(merge.local, id).status
                remoteStatus == WithId(merge.remote, id).status
            IN  /\ mergedStatus = HigherStatus(localStatus, remoteStatus)
                /\ statusPriority(mergedStatus) >= statusPriority(localStatus)

\* A merge has run on lists that share an id whose remote status is the more
\* advanced one, and on lists that share an id whose local status is.
C21_Witness ==
    /\ merge # <<>>
    /\ merge.results # <<>>
    /\ \E id \in IdsOf(merge.local) \cap IdsOf(merge.remote) :
        /\ statusPriority(WithId(merge.remote, id).status)
              > statusPriority(WithId(merge.local, id).status)
        /\ WithId(merge.results[1], id).fromFlight = "B"
    /\ \E id \in IdsOf(merge.local) \cap IdsOf(merge.remote) :
        /\ statusPriority(WithId(merge.remote, id).status)
              < statusPriority(WithId(merge.local, id).status)
        /\ WithId(merge.results[1], id).fromFlight = "A"

\* C26: mergeLetterData keeps every local letter at its original position;
\* for local and remote lists that each have unique ids every id occurs
\* exactly once in the list returned; and merging the list returned with the
\* same remote list again changes nothing.
C26_MergeKeepsPositionsAndIdsAndIsIdempotent ==
    merge # <<>> /\ merge.results # <<>> =>
        LET merged == merge.results[1]
        IN  /\ Len(merged) >= Len(merge.local)
            /\ \A i \in DOMAIN merge.local : merged[i].id = merge.local[i].id
            /\ IdsOf(merged) = IdsOf(merge.local) \cup IdsOf(merge.remote)
            /\ \A i \in DOMAIN merged : \A j \in DOMAIN merged :
                   merged[i].id = merged[j].id => i = j
            /\ Len(merge.results) = 2 => merge.results[2] = merged

\* The second merge has run, after a first one that both appended a remote
\* letter and replaced a local one.
C26_Witness ==
    /\ merge # <<>>
    /\ Len(merge.results) = 2
    /\ Len(merge.results[1]) > Len(merge.local)
    /\ \E i \in DOMAIN merge.local : merge.results[1][i] # merge.local[i]

\* The flight of user f has landed: its progress at the clock is at least 1.
Landed(f) ==
    FracLE(One, flightProgressPercent(flights[f].departureUTC, flights[f].arrivalUTC, now))

\* C22: a letter of the store becomes delivered only when both its carrying
\* flight and its receiving flight have progress >= 1, whichever of the map
\* screen's updateData, processLetterStatuses and the Mark-as-Read handler
\* writes the store.
C22_DeliveredOnlyWhenBothFlightsLanded ==
    [][(MapUpdateData \/ ProcessLetterStatuses \/ HandleMarkAsRead) =>
          \A i \in DOMAIN letters : \A j \in DOMAIN letters' :
              (/\ SameLetter(i, j)
               /\ letters[i].status # DELIVERED
               /\ letters'[j].status = DELIVERED) =>
                  Landed(letters'[j].fromFlight) /\ Landed(letters'[j].toFlight)]_vars

\* C23: any two calls of checkMovieStartReminder that both return a reminder
\* with shouldShow true are at least 3 minutes apart, also when the timer
\* starts a call before the call before it has written @movie_last_reminder.
C23_RemindersThreeMinutesApart ==
    movie # <<>> /\ Len(movie.shown) = 2 =>
        movie.shown[2] - movie.shown[1] >= 3 * 60000

\* C24: after any sequence of scheduleMovieStartNotification and
\* cancelMovieNotification calls, failed scheduling requests included, every
\* notification still scheduled has its id stored under
\* @movie_notification_id or @movie_prep_notification_id, so that one
\* cancelMovieNotification call leaves none scheduled.
C24_ScheduledNotificationsAreStored ==
    movie # <<>> =>
        /\ movie.scheduled \subseteq {movie.notificationId, movie.prepNotificationId}
        /\ cancelMovieNotification(movie).scheduled = {}

\* Milliseconds since the movie's start at the clock, in the state after a
\* step.
ElapsedSinceStart == now' - calculateMovieStartTime(movie'.departureUTC, now')

FullDuration == movie'.duration * 60 * 1000

StatusRank(status) ==
    CASE status = "none" -> 0
      [] status = "waiting" -> 1
      [] status = "playing" -> 2
      [] status = "ended" -> 3

\* C25: getCurrentMoviePosition returns waiting with position 0 before the
\* movie's start, playing with the elapsed time as position while
\* 0 <= elapsed < duration, and ended with the full duration as position
\* from then on; as the clock advances the status only moves forward
\* waiting -> playing -> ended, and the position stays within [0, duration].
C25_PositionFollowsTheClock ==
    [][(\E c \in 1..MaxChecks : UpdateMovieStatus(c)) =>
          LET result == movie'.position
          IN  /\ ElapsedSinceStart < 0 =>
                    result.status = "waiting" /\ result.position = Zero
              /\ (0 <= ElapsedSinceStart /\ ElapsedSinceStart < FullDuration) =>
                    result.status = "playing" /\ result.position = <<ElapsedSinceStart, 1>>
              /\ ElapsedSinceStart >= FullDuration =>
                    result.status = "ended" /\ result.position = <<FullDuration, 1>>
              /\ StatusRank(result.status) >= StatusRank(movie.position.status)
              /\ FracLE(Zero, result.position)
              /\ FracLE(result.position, <<FullDuration, 1>>)]_vars

\* The position was computed at the very instant the movie ends.
C25_Witness ==
    /\ movie # <<>>
    /\ op = "updateMovieStatus"
    /\ movie.position.status = "ended"
    /\ now - calculateMovieStartTime(movie.departureUTC, now) = movie.duration * 60 * 1000

\* C29: for every stored flight and every clock value canPlayMovie returns
\* true exactly when getTimeUntilMovieAvailable returns 0, the instant at
\* which now equals the end of the letter window included.
C29_CanPlayExactlyWhenNoTimeIsLeft ==
    (movie # <<>> /\ op = "canPlayMovie") =>
        (movie.available.canPlay <=> movie.available.timeUntil = 0)

\* C28: in LetterTrackingSystem a processLetterStatuses pass that follows
\* another one leaves the progress of every letter within [0,1], does not
\* lower the progress of a letter that is IN_TRANSIT before and after it, and
\* gives progress 1 to every letter it delivers.
C28_TrackedProgressNeverDecreases ==
    [][(op = "processLetterStatuses" /\ TrackerProcessLetterStatuses) =>
          \A id \in DOMAIN tracker :
              /\ FracLE(Zero, tracker'[id].progress)
              /\ FracLE(tracker'[id].progress, One)
              /\ (tracker[id].status = "IN_TRANSIT" /\ tracker'[id].status = "IN_TRANSIT") =>
                     FracLE(tracker[id].progress, tracker'[id].progress)
              /\ (tracker[id].status # "DELIVERED" /\ tracker'[id].status = "DELIVERED") =>
                     tracker'[id].progress = One]_vars

\* C27: after any sequence of start, stop and cleanup calls at most one
\* update interval is active, none is active after stop or cleanup, and the
\* simulationStarted and simulationStopped notifications alternate: a stop
\* on a stopped simulation and a start on a running one emit nothing.
C27_OneIntervalAndAlternatingNotifications ==
    [][(SimStart \/ SimStop \/ SimCleanup) =>
          /\ Cardinality(run'.active) <= 1
          /\ op' \in {"stop", "cleanup"} => run'.active = {}
          /\ run'.event.name = "simulationStarted" => run.lifecycle # "simulationStarted"
          /\ run'.event.name = "simulationStopped" => run.lifecycle = "simulationStarted"]_vars

FlightEvents == {"simulationStarted", "simulationStopped", "flightAdded", "flightRemoved",
                 "flightsUpdated"}

\* The status a letter has after the method that notifies the event.
StatusAfter(name) ==
    CASE name = "letterCreated" -> "DRAFT"
      [] name = "letterScheduled" -> "SCHEDULED"
      [] name = "letterInTransit" -> "IN_TRANSIT"
      [] name = "letterDelivered" -> "DELIVERED"
      [] name = "letterRead" -> "READ"

\* C30: when a registered listener throws during notifyListeners, in
\* FlightSimulation and in LetterTrackingSystem, every registered listener is
\* still called for the event, and the change that triggered the event (the
\* interval set or cleared, the flight added, removed or updated, the
\* letter's new status) is applied.
C30_ThrowingListenerDisturbsNothing ==
    [][(\/ SimStart \/ SimStop \/ SimCleanup \/ SimAddFlight \/ SimRemoveFlight
        \/ SimUpdateFlights \/ TrackerNotified) =>
          LET event == run'.event
          IN  /\ event.name \in FlightEvents => run'.called = DOMAIN run.listeners
              /\ event.name \notin FlightEvents \cup {"none"} =>
                     /\ run'.called = DOMAIN run.trackingListeners
                     /\ tracker'[event.id].status = StatusAfter(event.name)
              /\ event.name = "simulationStarted" =>
                     run'.updateInterval # Null /\ run'.active = {run'.updateInterval}
              /\ event.name = "simulationStopped" =>
                     run'.updateInterval = Null /\ run'.active = {}
              /\ event.name = "flightAdded" =>
                     /\ event.id \in DOMAIN run'.flights
                     /\ run'.flights[event.id].status = "SCHEDULED"
              /\ event.name = "flightRemoved" =>
                     /\ event.id \in DOMAIN run.flights
                     /\ event.id \notin DOMAIN run'.flights
              /\ event.name = "flightsUpdated" =>
                     /\ DOMAIN run'.flights = DOMAIN run.flights
                     /\ \A id \in DOMAIN run.flights :
                            run'.flights[id] = updateFlightData(run.flights[id], now)
              /\ op' = "cleanup" =>
                     run'.flights = <<>> /\ run'.listeners = <<>>]_vars

\* A letter's status change was notified to two listeners of which the first
\* throws, in a run in which the flights update was notified likewise and the
\* updated flight is in the Map.
C30_Witness ==
    /\ run # <<>>
    /\ run.event.name = "letterDelivered"
    /\ Len(run.trackingListeners) = 2
    /\ run.trackingListeners[1]
    /\ run.called = {1, 2}
    /\ Len(run.listeners) = 2
    /\ run.listeners[1]
    /\ \E id \in DOMAIN run.flights : run.flights[id].status = "IN_FLIGHT"

====
